---- MODULE Spec2Model ----
(***************************************************************************)
(* Model of dagster/core/scheduler/scheduler.py: the Schedule record, the  *)
(* change-set computation get_schedule_change_set and the reconciliation   *)
(* SchedulerHandle.up, run against a schedule storage and a scheduler      *)
(* backend that are reached through the instance.                          *)
(***************************************************************************)
EXTENDS Bags, FiniteSets, Integers, Sequences, TLC

VARIABLES
    schedule_defs,             \* SchedulerHandle._schedule_defs
    python_path,               \* argument of up
    repository_path,           \* argument of up
    store,                     \* the schedule storage of the repository: a bag of Schedule
    pc,                        \* position of the caller inside up
    i,                         \* index of the for loop over _schedule_defs (line 84)
    schedules_to_restart,      \* local list of up (line 83)
    j,                         \* index of the for loop over schedules_to_restart (line 114)
    schedule_names_to_delete,  \* local set of up (line 112)
    ended,                     \* names the for loop of line 120 has already visited
    passes,                    \* number of calls of up that have returned
    pre,                       \* the store as it was when the running (or last) call of up began
    log,                       \* store writes and backend calls of the running (or last) call of up
    changeset,                 \* value returned by the last get_change_set, None before
    error                      \* the exception a call of up has propagated to its caller, if any

vars == <<schedule_defs, python_path, repository_path, store, pc, i, schedules_to_restart,
          j, schedule_names_to_delete, ended, passes, pre, log, changeset, error>>

----------------------------------------------------------------------------
(* Bounds and input domains *)

MaxDefs == 2
MaxPasses == 2

Names == {"a", "b", "c"}
Crons == {"c1", "c2"}
Envs == {"e1", "e2"}
UpEnvs == {"e1"}
PythonPaths == {"p0", "p1"}
RepositoryPaths == {"r0", "r1"}

None == [none |-> TRUE]
NoStatus == "None"
NoChangeSet == << <<"None">> >>
NoError == "None"

----------------------------------------------------------------------------
(* ScheduleStatus, ScheduleDefinitionData and Schedule *)

RUNNING == "RUNNING"
STOPPED == "STOPPED"
ENDED == "ENDED"
ScheduleStatus == {RUNNING, STOPPED, ENDED}

ScheduleDefinitionData(name, cron_schedule, environment_vars) ==
    [name |-> name, cron_schedule |-> cron_schedule, environment_vars |-> environment_vars]

Schedule(schedule_definition_data, status, pp, rp) ==
    [schedule_definition_data |-> schedule_definition_data, status |-> status,
     python_path |-> pp, repository_path |-> rp]

name(schedule) == schedule.schedule_definition_data.name

cron_schedule(schedule) == schedule.schedule_definition_data.cron_schedule

with_status(schedule, status) ==
    Schedule(schedule.schedule_definition_data, status,
             schedule.python_path, schedule.repository_path)

----------------------------------------------------------------------------
(* Helpers over sets, sequences and bags *)

RECURSIVE SetToSeq(_)
SetToSeq(S) ==
    IF S = {} THEN <<>>
    ELSE LET x == CHOOSE y \in S : TRUE IN <<x>> \o SetToSeq(S \ {x})

SeqsUpTo(S, n) == UNION {[1..k -> S] : k \in 0..n}

----------------------------------------------------------------------------
(* The schedule storage and the scheduler backend, seen through the instance *)

WithoutName(s, n) == [r \in {x \in DOMAIN s : name(x) # n} |-> s[r]]

RECURSIVE all_schedules(_)
all_schedules(s) ==
    IF BagToSet(s) = {} THEN <<>>
    ELSE LET r == CHOOSE x \in BagToSet(s) : TRUE
         IN <<r>> \o all_schedules(s (-) SetToBag({r}))

get_schedule_by_name(s, n) ==
    IF \E r \in BagToSet(s) : name(r) = n
    THEN CHOOSE r \in BagToSet(s) : name(r) = n
    ELSE None

add_schedule(s, schedule) == s (+) SetToBag({schedule})

update_schedule(s, schedule) == WithoutName(s, name(schedule)) (+) SetToBag({schedule})

stop_schedule(s, n) == update_schedule(s, with_status(get_schedule_by_name(s, n), STOPPED))

start_schedule(s, n) == update_schedule(s, with_status(get_schedule_by_name(s, n), RUNNING))

end_schedule(s, n) == WithoutName(s, n)

StatusOf(s, n) ==
    IF get_schedule_by_name(s, n) = None THEN NoStatus ELSE get_schedule_by_name(s, n).status

StoreNames(s) == {name(r) : r \in BagToSet(s)}

----------------------------------------------------------------------------
(* get_schedule_change_set *)

DictOf(seq) ==
    [n \in {seq[k].name : k \in DOMAIN seq} |->
        seq[CHOOSE k \in DOMAIN seq :
                /\ seq[k].name = n
                /\ \A m \in DOMAIN seq : seq[m].name = n => m <= k]]

\* faulty variant: the comparison of line 44 is dropped
FieldChangesAlways(old_schedule_def, new_schedule_def) ==
    << <<"cron_schedule",
         <<old_schedule_def.cron_schedule, new_schedule_def.cron_schedule>> >> >>

\* faulty variant: environment_vars is compared as well
FieldChangesEnv(old_schedule_def, new_schedule_def) ==
    (IF old_schedule_def.cron_schedule # new_schedule_def.cron_schedule
     THEN << <<"cron_schedule",
               <<old_schedule_def.cron_schedule, new_schedule_def.cron_schedule>> >> >>
     ELSE <<>>)
    \o (IF old_schedule_def.environment_vars # new_schedule_def.environment_vars
        THEN << <<"environment_vars",
                  <<old_schedule_def.environment_vars, new_schedule_def.environment_vars>> >> >>
        ELSE <<>>)

FieldChanges(old_schedule_def, new_schedule_def) ==
    IF old_schedule_def.cron_schedule # new_schedule_def.cron_schedule
    THEN << <<"cron_schedule",
              <<old_schedule_def.cron_schedule, new_schedule_def.cron_schedule>> >> >>
    ELSE <<>>

get_schedule_change_set(old_schedules, new_schedule_defs) ==
    LET new_schedules_defs_dict == DictOf(new_schedule_defs)
        old_schedules_dict ==
            DictOf([k \in DOMAIN old_schedules |->
                       [name |-> name(old_schedules[k]), schedule |-> old_schedules[k]]])
        new_schedule_defs_names == DOMAIN new_schedules_defs_dict
        old_schedules_names == DOMAIN old_schedules_dict
        added_schedules == new_schedule_defs_names \ old_schedules_names
        changed_schedules == new_schedule_defs_names \cap old_schedules_names
        removed_schedules == old_schedules_names \ new_schedule_defs_names
        added == SetToSeq(added_schedules)
        changed == SetToSeq(changed_schedules)
        removed == SetToSeq(removed_schedules)
        changes(n) == FieldChanges(old_schedules_dict[n].schedule.schedule_definition_data,
                                   new_schedules_defs_dict[n])
    IN  [k \in DOMAIN added |-> <<"add", added[k], <<>> >>]
        \o SelectSeq([k \in DOMAIN changed |-> <<"change", changed[k], changes(changed[k])>>],
                     LAMBDA e : Len(e[3]) > 0)
        \o [k \in DOMAIN removed |-> <<"remove", removed[k], <<>> >>]

----------------------------------------------------------------------------
(* SchedulerHandle.up *)

Entry(op, n, status) == [op |-> op, name |-> n, status |-> status]

\* faulty variant: the existing status is not carried over (line 92)
UpdatedScheduleStopped(schedule_def, existing_schedule) ==
    Schedule(schedule_def, STOPPED, python_path, repository_path)

\* faulty variant: the definition data is not replaced (line 91)
UpdatedScheduleOldData(schedule_def, existing_schedule) ==
    Schedule(existing_schedule.schedule_definition_data, existing_schedule.status,
             python_path, repository_path)

UpdatedSchedule(schedule_def, existing_schedule) ==
    Schedule(schedule_def, existing_schedule.status, python_path, repository_path)

\* faulty variant: a new schedule starts RUNNING (line 102)
NewScheduleRunning(schedule_def) ==
    Schedule(schedule_def, RUNNING, python_path, repository_path)

NewSchedule(schedule_def) ==
    Schedule(schedule_def, STOPPED, python_path, repository_path)

\* faulty variant: the operands of the set difference of line 112 are swapped
NamesToDeleteSwapped(s, defs) == {defs[k].name : k \in DOMAIN defs} \ StoreNames(s)

\* faulty variant: the set difference of line 112 is dropped
NamesToDeleteAll(s, defs) == StoreNames(s)

NamesToDelete(s, defs) == StoreNames(s) \ {defs[k].name : k \in DOMAIN defs}

\* faulty variant: the status test of line 116 is dropped
NeedsRestartAlways(schedule) == TRUE

NeedsRestart(schedule) == schedule.status = RUNNING

InitialStores ==
    {SetToBag({Schedule(ScheduleDefinitionData(n, f[n][1], f[n][2]), f[n][3], "p0", "r0") :
                 n \in {m \in Names : f[m] # <<NoStatus>>}}) :
        f \in [Names -> {<<NoStatus>>} \cup (Crons \X UpEnvs \X {RUNNING, STOPPED})]}

Definitions(envs) ==
    {ScheduleDefinitionData(n, c, e) : n \in Names, c \in Crons, e \in envs}

Init ==
    /\ schedule_defs \in SeqsUpTo(Definitions(UpEnvs), MaxDefs)
    /\ python_path \in PythonPaths
    /\ repository_path \in RepositoryPaths
    /\ store \in InitialStores
    /\ pc = "idle"
    /\ i = 1
    /\ schedules_to_restart = <<>>
    /\ j = 1
    /\ schedule_names_to_delete = {}
    /\ ended = {}
    /\ passes = 0
    /\ pre = store
    /\ log = <<>>
    /\ changeset = NoChangeSet
    /\ error = NoError

UpCall ==
    /\ pc = "idle"
    /\ passes < MaxPasses
    /\ pc' = "loop"
    /\ i' = 1
    /\ schedules_to_restart' = <<>>
    /\ j' = 1
    /\ schedule_names_to_delete' = {}
    /\ ended' = {}
    /\ pre' = store
    /\ log' = <<>>
    /\ changeset' = NoChangeSet
    /\ UNCHANGED <<schedule_defs, python_path, repository_path, store, passes, error>>

\* faulty variant: the restart is issued inside the loop of line 84, right after the update
UpUpdateRestartInline ==
    /\ pc = "loop"
    /\ i <= Len(schedule_defs)
    /\ LET schedule_def == schedule_defs[i]
           existing_schedule == get_schedule_by_name(store, schedule_def.name)
       IN  /\ existing_schedule # None
           /\ LET schedule == UpdatedSchedule(schedule_def, existing_schedule)
                  n == name(schedule)
              IN  /\ store' = update_schedule(store, schedule)
                  /\ log' = log \o <<Entry("update", n, schedule.status)>>
                              \o (IF NeedsRestart(schedule)
                                  THEN <<Entry("stop", n, RUNNING), Entry("start", n, STOPPED)>>
                                  ELSE <<>>)
    /\ i' = i + 1
    /\ UNCHANGED <<schedule_defs, python_path, repository_path, pc, schedules_to_restart, j,
                   schedule_names_to_delete, ended, passes, pre, changeset, error>>

UpUpdate ==
    /\ pc = "loop"
    /\ i <= Len(schedule_defs)
    /\ LET schedule_def == schedule_defs[i]
           existing_schedule == get_schedule_by_name(store, schedule_def.name)
       IN  /\ existing_schedule # None
           /\ LET schedule == UpdatedSchedule(schedule_def, existing_schedule)
              IN  /\ store' = update_schedule(store, schedule)
                  /\ schedules_to_restart' = Append(schedules_to_restart, schedule)
                  /\ log' = Append(log, Entry("update", name(schedule), schedule.status))
    /\ i' = i + 1
    /\ UNCHANGED <<schedule_defs, python_path, repository_path, pc, j,
                   schedule_names_to_delete, ended, passes, pre, changeset, error>>

\* faulty variant: the test of line 88 is dropped, a definition is always added
UpAddAlways ==
    /\ pc = "loop"
    /\ i <= Len(schedule_defs)
    /\ LET schedule == NewSchedule(schedule_defs[i])
       IN  /\ store' = add_schedule(store, schedule)
           /\ log' = Append(log, Entry("add", name(schedule), schedule.status))
    /\ i' = i + 1
    /\ UNCHANGED <<schedule_defs, python_path, repository_path, pc, schedules_to_restart, j,
                   schedule_names_to_delete, ended, passes, pre, changeset, error>>

UpAdd ==
    /\ pc = "loop"
    /\ i <= Len(schedule_defs)
    /\ LET schedule_def == schedule_defs[i]
           existing_schedule == get_schedule_by_name(store, schedule_def.name)
       IN  /\ existing_schedule = None
           /\ LET schedule == NewSchedule(schedule_def)
              IN  /\ store' = add_schedule(store, schedule)
                  /\ log' = Append(log, Entry("add", name(schedule), schedule.status))
    /\ i' = i + 1
    /\ UNCHANGED <<schedule_defs, python_path, repository_path, pc, schedules_to_restart, j,
                   schedule_names_to_delete, ended, passes, pre, changeset, error>>

UpNamesToDelete ==
    /\ pc = "loop"
    /\ i > Len(schedule_defs)
    /\ schedule_names_to_delete' = NamesToDelete(store, schedule_defs)
    /\ pc' = "restart"
    /\ UNCHANGED <<schedule_defs, python_path, repository_path, store, i,
                   schedules_to_restart, j, ended, passes, pre, log, changeset,
                   error>>

UpSkipRestart ==
    /\ pc = "restart"
    /\ j <= Len(schedules_to_restart)
    /\ ~NeedsRestart(schedules_to_restart[j])
    /\ j' = j + 1
    /\ UNCHANGED <<schedule_defs, python_path, repository_path, store, pc, i,
                   schedules_to_restart, schedule_names_to_delete, ended, passes, pre,
                   log, changeset, error>>

UpStop ==
    /\ pc = "restart"
    /\ j <= Len(schedules_to_restart)
    /\ NeedsRestart(schedules_to_restart[j])
    /\ LET n == name(schedules_to_restart[j])
       IN  /\ log' = Append(log, Entry("stop", n, StatusOf(store, n)))
           /\ IF get_schedule_by_name(store, n) = None
              THEN pc' = "NotFoundError" /\ store' = store
              ELSE pc' = "stopped" /\ store' = stop_schedule(store, n)
    /\ UNCHANGED <<schedule_defs, python_path, repository_path, i, schedules_to_restart, j,
                   schedule_names_to_delete, ended, passes, pre, changeset, error>>

UpStart ==
    /\ pc = "stopped"
    /\ LET n == name(schedules_to_restart[j])
       IN  /\ log' = Append(log, Entry("start", n, StatusOf(store, n)))
           /\ IF get_schedule_by_name(store, n) = None
              THEN pc' = "NotFoundError" /\ store' = store
              ELSE pc' = "restart" /\ store' = start_schedule(store, n)
    /\ j' = j + 1
    /\ UNCHANGED <<schedule_defs, python_path, repository_path, i, schedules_to_restart,
                   schedule_names_to_delete, ended, passes, pre, changeset, error>>

\* faulty variant: the loop of line 120 visits a name it has already ended
UpEndRevisit ==
    /\ pc = "restart"
    /\ j > Len(schedules_to_restart)
    /\ \E n \in schedule_names_to_delete :
          /\ ended' = ended \cup {n}
          /\ log' = Append(log, Entry("end", n, StatusOf(store, n)))
          /\ IF get_schedule_by_name(store, n) = None
             THEN pc' = "NotFoundError" /\ store' = store
             ELSE pc' = pc /\ store' = end_schedule(store, n)
    /\ UNCHANGED <<schedule_defs, python_path, repository_path, i, schedules_to_restart, j,
                   schedule_names_to_delete, passes, pre, changeset, error>>

\* faulty variant: the loop of line 120 does not wait for the loop of line 114 to finish
UpEndEarly ==
    /\ pc = "restart"
    /\ \E n \in schedule_names_to_delete \ ended :
          /\ ended' = ended \cup {n}
          /\ log' = Append(log, Entry("end", n, StatusOf(store, n)))
          /\ IF get_schedule_by_name(store, n) = None
             THEN pc' = "NotFoundError" /\ store' = store
             ELSE pc' = pc /\ store' = end_schedule(store, n)
    /\ UNCHANGED <<schedule_defs, python_path, repository_path, i, schedules_to_restart, j,
                   schedule_names_to_delete, passes, pre, changeset, error>>

UpEnd ==
    /\ pc = "restart"
    /\ j > Len(schedules_to_restart)
    /\ \E n \in schedule_names_to_delete \ ended :
          /\ ended' = ended \cup {n}
          /\ log' = Append(log, Entry("end", n, StatusOf(store, n)))
          /\ IF get_schedule_by_name(store, n) = None
             THEN pc' = "NotFoundError" /\ store' = store
             ELSE pc' = pc /\ store' = end_schedule(store, n)
    /\ UNCHANGED <<schedule_defs, python_path, repository_path, i, schedules_to_restart, j,
                   schedule_names_to_delete, passes, pre, changeset, error>>

UpReturn ==
    /\ pc = "restart"
    /\ j > Len(schedules_to_restart)
    /\ schedule_names_to_delete \ ended = {}
    /\ pc' = "idle"
    /\ passes' = passes + 1
    /\ UNCHANGED <<schedule_defs, python_path, repository_path, store, i,
                   schedules_to_restart, j, schedule_names_to_delete, ended, pre, log,
                   changeset, error>>

get_change_set ==
    /\ pc = "idle"
    /\ changeset = NoChangeSet
    /\ changeset' = get_schedule_change_set(all_schedules(store), schedule_defs)
    /\ UNCHANGED <<schedule_defs, python_path, repository_path, store, pc, i,
                   schedules_to_restart, j, schedule_names_to_delete, ended, passes, pre,
                   log, error>>

Next ==
    \/ UpCall
    \/ UpUpdate
    \/ UpAdd
    \/ UpNamesToDelete
    \/ UpSkipRestart
    \/ UpStop
    \/ UpStart
    \/ UpEnd
    \/ UpReturn
    \/ get_change_set

Spec == Init /\ [][Next]_vars

(* get_change_set alone, on definitions whose environment_vars vary as well *)

InitCS ==
    /\ schedule_defs \in SeqsUpTo(Definitions(Envs), MaxDefs)
    /\ python_path = "p0"
    /\ repository_path = "r0"
    /\ store \in InitialStores
    /\ pc = "idle"
    /\ i = 1
    /\ schedules_to_restart = <<>>
    /\ j = 1
    /\ schedule_names_to_delete = {}
    /\ ended = {}
    /\ passes = 0
    /\ pre = store
    /\ log = <<>>
    /\ changeset = NoChangeSet
    /\ error = NoError

NextCS == get_change_set

SpecCS == InitCS /\ [][NextCS]_vars

(* A pass of up that fails: up has no try/except, so an exception raised by a call on the
   instance propagates to the caller, who may then call up again *)

UpStoreFails ==
    /\ pc = "loop"
    /\ error = NoError
    /\ pc' = "aborted"
    /\ error' = "StoreError"
    /\ UNCHANGED <<schedule_defs, python_path, repository_path, store, i,
                   schedules_to_restart, j, schedule_names_to_delete, ended, passes, pre,
                   log, changeset>>

UpBackendFails ==
    /\ error = NoError
    /\ \/ pc = "stopped"
       \/ /\ pc = "restart"
          /\ j <= Len(schedules_to_restart)
          /\ NeedsRestart(schedules_to_restart[j])
       \/ /\ pc = "restart"
          /\ j > Len(schedules_to_restart)
          /\ schedule_names_to_delete \ ended # {}
    /\ pc' = "aborted"
    /\ error' = "BackendError"
    /\ UNCHANGED <<schedule_defs, python_path, repository_path, store, i,
                   schedules_to_restart, j, schedule_names_to_delete, ended, passes, pre,
                   log, changeset>>

UpCallAgain ==
    /\ pc = "aborted"
    /\ pc' = "loop"
    /\ i' = 1
    /\ schedules_to_restart' = <<>>
    /\ j' = 1
    /\ schedule_names_to_delete' = {}
    /\ ended' = {}
    /\ log' = <<>>
    /\ changeset' = NoChangeSet
    /\ UNCHANGED <<schedule_defs, python_path, repository_path, store, passes, pre, error>>

InitF ==
    /\ Init
    /\ python_path = "p1"
    /\ repository_path = "r1"

NextF ==
    \/ Next
    \/ UpStoreFails
    \/ UpBackendFails
    \/ UpCallAgain

SpecF == InitF /\ [][NextF]_vars

(* Passes of up over a store that may also hold records left with status ENDED *)

InitialStoresEnded ==
    {SetToBag({Schedule(ScheduleDefinitionData(n, f[n][1], f[n][2]), f[n][3], "p0", "r0") :
                 n \in {m \in Names : f[m] # <<NoStatus>>}}) :
        f \in [Names -> {<<NoStatus>>} \cup (Crons \X UpEnvs \X ScheduleStatus)]}

InitE ==
    /\ schedule_defs \in SeqsUpTo(Definitions(UpEnvs), MaxDefs)
    /\ python_path = "p1"
    /\ repository_path = "r1"
    /\ store \in InitialStoresEnded
    /\ pc = "idle"
    /\ i = 1
    /\ schedules_to_restart = <<>>
    /\ j = 1
    /\ schedule_names_to_delete = {}
    /\ ended = {}
    /\ passes = 0
    /\ pre = store
    /\ log = <<>>
    /\ changeset = NoChangeSet
    /\ error = NoError

SpecE == InitE /\ [][Next]_vars

----------------------------------------------------------------------------
(* Vocabulary of the properties *)

DefNames == {schedule_defs[k].name : k \in DOMAIN schedule_defs}

UniqueNames(defs) == \A k, m \in DOMAIN defs : defs[k].name = defs[m].name => k = m

Returned == pc = "idle" /\ passes >= 1

IsWrite(e) == e.op \in {"add", "update"}

IsBackend(e) == e.op \in {"stop", "start", "end"}

\* the operations of the pass, in order, that concern the name n and are among ops
OpsOf(n, ops) ==
    LET sel == SelectSeq(log, LAMBDA e : e.name = n /\ e.op \in ops)
    IN  [k \in DOMAIN sel |-> sel[k].op]

BackendOps == {"stop", "start", "end"}

\* C1: a name of the desired list that has no record when up starts gets a record added
\* with status STOPPED (one add write, carrying STOPPED, and the record is STOPPED when up
\* returns), and up issues no backend start, stop or end for that name.
C1_NewRecordStopped ==
    \A n \in DefNames \ StoreNames(pre) :
        /\ OpsOf(n, BackendOps) = <<>>
        /\ \A k \in DOMAIN log : (log[k].name = n /\ log[k].op = "add") => log[k].status = STOPPED
        /\ Returned => /\ OpsOf(n, {"add"}) = <<"add">>
                       /\ StatusOf(store, n) = STOPPED

C1_Witness ==
    /\ Returned
    /\ \E n \in DefNames \ StoreNames(pre) : StatusOf(store, n) = STOPPED
    /\ \E k \in DOMAIN log : IsBackend(log[k])

\* C2: every name that has a record before up and is in the desired list has, when up
\* returns, the status it had before up started, whether RUNNING or STOPPED; and every
\* update write of the pass carries the status the store held for that name.
C2_StatusRetained ==
    /\ \A k \in DOMAIN log :
          (log[k].op = "update" /\ log[k].name \in StoreNames(pre))
              => log[k].status = StatusOf(pre, log[k].name)
    /\ Returned =>
          \A n \in StoreNames(pre) \cap DefNames : StatusOf(store, n) = StatusOf(pre, n)

C2_Witness ==
    /\ Returned
    /\ \E n, m \in StoreNames(pre) \cap DefNames :
          /\ StatusOf(pre, n) = RUNNING /\ StatusOf(store, n) = RUNNING
          /\ StatusOf(pre, m) = STOPPED /\ StatusOf(store, m) = STOPPED
          /\ cron_schedule(get_schedule_by_name(pre, n))
                # cron_schedule(get_schedule_by_name(store, n))
          /\ cron_schedule(get_schedule_by_name(pre, m))
                # cron_schedule(get_schedule_by_name(store, m))

\* C4: end is invoked for no name of the desired list and at most once per name; when up
\* returns, every name that had a record when up started and is absent from the desired
\* list has received end exactly once and has no record any more.
C4_RemovedEndedOnce ==
    /\ \A k \in DOMAIN log : log[k].op = "end" => log[k].name \notin DefNames
    /\ \A n \in Names : Len(OpsOf(n, {"end"})) <= 1
    /\ Returned =>
          \A n \in StoreNames(pre) \ DefNames :
              /\ OpsOf(n, {"end"}) = <<"end">>
              /\ n \notin StoreNames(store)

C4_Witness ==
    /\ Returned
    /\ \E n \in StoreNames(pre) \ DefNames : n \notin StoreNames(store)
    /\ \E m \in StoreNames(pre) \cap DefNames : m \in StoreNames(store)

\* C3: in one pass of up, a record that exists with status RUNNING and whose name is in the
\* desired list receives exactly one backend stop followed by exactly one backend start and
\* no other backend call; a record that exists with status STOPPED and is in the desired
\* list receives neither.
C3_RestartExactlyOnce ==
    Returned =>
        \A n \in StoreNames(pre) \cap DefNames :
            /\ StatusOf(pre, n) = RUNNING => OpsOf(n, BackendOps) = <<"stop", "start">>
            /\ StatusOf(pre, n) = STOPPED => OpsOf(n, BackendOps) = <<>>

\* C5: within one pass, when a backend stop, start or end call is issued the store writes
\* of all desired definitions have been made, and no store write follows a backend call.
C5_WritesBeforeBackend ==
    \A k \in DOMAIN log :
        IsBackend(log[k]) =>
            /\ \A l \in DOMAIN log : IsWrite(log[l]) => l < k
            /\ Cardinality({l \in DOMAIN log : IsWrite(log[l])}) = Len(schedule_defs)

C5_Witness ==
    /\ Returned
    /\ Cardinality({l \in DOMAIN log : IsWrite(log[l])}) >= 2
    /\ \E k, l, m \in DOMAIN log :
          log[k].op = "stop" /\ log[l].op = "start" /\ log[m].op = "end"

\* C6 as stated: the second of two passes in succession, with the definition list and the
\* store unchanged in between, issues no backend start, stop or end call.
C6_SecondPassNoBackendCalls ==
    (Returned /\ passes >= 2) => \A k \in DOMAIN log : ~IsBackend(log[k])

\* C6 as amended: the second of two passes in succession issues no end call and no backend
\* call for a record that is not RUNNING, and it stops and starts every record that is
\* RUNNING: it issues zero backend calls exactly when no record is RUNNING.
C6_SecondPassRestartsOnlyRunning ==
    (Returned /\ passes >= 2) =>
        /\ \A k \in DOMAIN log : log[k].op # "end"
        /\ \A n \in Names :
              /\ StatusOf(pre, n) # RUNNING => OpsOf(n, BackendOps) = <<>>
              /\ StatusOf(pre, n) = RUNNING =>
                    /\ OpsOf(n, {"stop"}) # <<>>
                    /\ OpsOf(n, {"start"}) # <<>>

C6_Witness ==
    /\ Returned
    /\ passes >= 2
    /\ \E n, m \in StoreNames(pre) :
          /\ StatusOf(pre, n) = RUNNING /\ OpsOf(n, BackendOps) # <<>>
          /\ StatusOf(pre, m) = STOPPED /\ OpsOf(m, BackendOps) = <<>>

\* C7: a second pass directly after a completed pass with the same definition list makes
\* no add write and no end call, its backend calls are one stop/start pair for each RUNNING
\* record and nothing else, and it leaves the store as the first pass left it.
C7_SecondPassFixpoint ==
    (Returned /\ passes >= 2) =>
        /\ \A k \in DOMAIN log : log[k].op \notin {"add", "end"}
        /\ \A n \in Names :
              OpsOf(n, BackendOps) =
                  IF StatusOf(pre, n) = RUNNING THEN <<"stop", "start">> ELSE <<>>
        /\ store = pre

\* C8: when up returns, the record names are the desired names, there is one record per
\* name, and each record carries the definition data of a desired definition of its name
\* and the python_path and repository_path passed to the call.
C8_StoreMatchesDefinitions ==
    Returned =>
        /\ StoreNames(store) = DefNames
        /\ \A r \in BagToSet(store) :
              /\ CopiesIn(r, store) = 1
              /\ \A q \in BagToSet(store) : name(q) = name(r) => q = r
              /\ \E k \in DOMAIN schedule_defs : r.schedule_definition_data = schedule_defs[k]
              /\ r.python_path = python_path
              /\ r.repository_path = repository_path

C8_Witness ==
    /\ Returned
    /\ passes = 1
    /\ StoreNames(pre) \ DefNames # {}
    /\ DefNames \ StoreNames(pre) # {}
    /\ \E n \in StoreNames(pre) \cap DefNames :
          /\ get_schedule_by_name(pre, n).schedule_definition_data
                # get_schedule_by_name(store, n).schedule_definition_data
          /\ get_schedule_by_name(pre, n).python_path # python_path
          /\ get_schedule_by_name(pre, n).repository_path # repository_path

EntryNames(kind) == {changeset[k][2] : k \in {m \in DOMAIN changeset : changeset[m][1] = kind}}

InBoth == StoreNames(store) \cap DefNames

DefOf(n) == schedule_defs[CHOOSE k \in DOMAIN schedule_defs : schedule_defs[k].name = n]

ChangeSetShape ==
    /\ \A k \in DOMAIN changeset : changeset[k][1] \in {"add", "change", "remove"}
    /\ \A k, l \in DOMAIN changeset : changeset[k][2] = changeset[l][2] => k = l
    /\ \A k \in DOMAIN changeset :
          (changeset[k][1] = "change") <=> (Len(changeset[k][3]) > 0)
    /\ EntryNames("add") = DefNames \ StoreNames(store)
    /\ EntryNames("remove") = StoreNames(store) \ DefNames

\* C9 as stated: for unique names the change set has one add entry per name only in the
\* definitions, one remove entry per name only in the records, one change entry with
\* non-empty field_diffs per name in both whose fields differ, no entry for a name in both
\* with identical fields, and no name in two entries.
C9_ChangeSetByFields ==
    (changeset # NoChangeSet /\ UniqueNames(schedule_defs)) =>
        /\ ChangeSetShape
        /\ EntryNames("change") =
              {n \in InBoth :
                  get_schedule_by_name(store, n).schedule_definition_data # DefOf(n)}

\* C9 as amended: the same, with the change entries being those of the names in both
\* whose cron_schedule differs, and no entry for a name in both with equal cron_schedule.
C9_ChangeSetByCron ==
    (changeset # NoChangeSet /\ UniqueNames(schedule_defs)) =>
        /\ ChangeSetShape
        /\ EntryNames("change") =
              {n \in InBoth :
                  cron_schedule(get_schedule_by_name(store, n)) # DefOf(n).cron_schedule}

C9_Witness ==
    /\ changeset # NoChangeSet
    /\ UniqueNames(schedule_defs)
    /\ EntryNames("change") # {}
    /\ EntryNames("remove") # {}
    /\ \E n \in InBoth \ EntryNames("change") :
          get_schedule_by_name(store, n).schedule_definition_data # DefOf(n)

\* C10: a desired list that repeats a name is rejected: get_schedule_change_set returns no
\* change set for it, up does not return normally, and up makes no second store write for
\* the repeated name.
C10_DuplicatesRejected ==
    ~UniqueNames(schedule_defs) =>
        /\ changeset = NoChangeSet
        /\ ~Returned
        /\ \A n \in Names : Len(OpsOf(n, {"add", "update"})) <= 1

\* the last definition of the list prefix 1..m that carries the name n
LastDefIn(n, m) ==
    schedule_defs[CHOOSE k \in 1..m :
                     /\ schedule_defs[k].name = n
                     /\ \A l \in 1..m : schedule_defs[l].name = n => l <= k]

\* what one pass writes for the name n when it has processed the first m definitions
WrittenRecord(s0, n, m) ==
    Schedule(LastDefIn(n, m),
             IF n \in StoreNames(s0) THEN StatusOf(s0, n) ELSE STOPPED,
             python_path, repository_path)

\* the store a pass without failure leaves when it starts from the store s0
UninterruptedResult(s0) ==
    SetToBag({WrittenRecord(s0, n, Len(schedule_defs)) : n \in DefNames})

\* names, definition data and status of the records of a store
Records(s) == {<<name(r), r.schedule_definition_data, r.status, CopiesIn(r, s)>> : r \in BagToSet(s)}

\* a pass without failure does leave UninterruptedResult
UninterruptedResultIsResult ==
    (Returned /\ error = NoError) => store = UninterruptedResult(pre)

\* C11: when a pass of up has been aborted somewhere and up is then run again in full
\* with the same definition list, the store (names, definition data and status of every
\* record) equals the store an uninterrupted pass would have left from the original store.
C11_RerunAfterAbort ==
    (Returned /\ passes = 1 /\ error # NoError) => Records(store) = Records(UninterruptedResult(pre))

\* C14: when a store read or write fails while up processes the definition number i, up
\* stops there: the pass has made exactly the writes of the first i-1 definitions, in order,
\* and no backend call; the store holds those writes, and every other record is as it was
\* when the pass began (nothing ended, nothing restarted, no later definition written).
C14_StoreFailureStopsPass ==
    (pc = "aborted" /\ error = "StoreError") =>
        /\ Len(log) = i - 1
        /\ \A k \in DOMAIN log : IsWrite(log[k]) /\ log[k].name = schedule_defs[k].name
        /\ LET written == {schedule_defs[k].name : k \in 1..(i - 1)}
           IN  /\ StoreNames(store) = StoreNames(pre) \cup written
               /\ \A r \in BagToSet(store) :
                     /\ CopiesIn(r, store) = 1
                     /\ name(r) \in written => r = WrittenRecord(pre, name(r), i - 1)
                     /\ name(r) \notin written => r = get_schedule_by_name(pre, name(r))

C14_Witness ==
    /\ pc = "aborted"
    /\ error = "StoreError"
    /\ i = 2
    /\ Len(schedule_defs) = 2
    /\ schedule_defs[1].name # schedule_defs[2].name
    /\ StatusOf(pre, schedule_defs[1].name) = RUNNING
    /\ StatusOf(store, schedule_defs[1].name) = RUNNING
    /\ get_schedule_by_name(store, schedule_defs[1].name)
          # get_schedule_by_name(pre, schedule_defs[1].name)
    /\ StoreNames(pre) \ DefNames # {}

\* the call the step makes on the instance, when it makes one
Calls(e) == log' = Append(log, e)

LastCall == log'[Len(log')]

Called == Len(log') = Len(log) + 1 /\ Calls(LastCall)

\* C12: in every step of every sequence of passes, the status of a name changes only by
\* STOPPED to RUNNING in a backend start, RUNNING to STOPPED in a backend stop, removal of
\* the record in a backend end, or creation as STOPPED in an add; an add or update write
\* leaves the status of every existing record as the store held it; start is only invoked
\* on a record that is STOPPED; a record that is ENDED never becomes RUNNING or STOPPED.
C12_StatusTransitions ==
    [][/\ \A n \in Names :
             LET s == StatusOf(store, n)
                 t == StatusOf(store', n)
             IN  /\ s # t =>
                       /\ Called
                       /\ LastCall.name = n
                       /\ \/ s = STOPPED /\ t = RUNNING /\ LastCall.op = "start"
                          \/ s = RUNNING /\ t = STOPPED /\ LastCall.op = "stop"
                          \/ s \in ScheduleStatus /\ t = NoStatus /\ LastCall.op = "end"
                          \/ s = NoStatus /\ t = STOPPED /\ LastCall.op = "add"
                 /\ s = ENDED => t \notin {RUNNING, STOPPED}
       /\ (Called /\ IsWrite(LastCall)) =>
             \A n \in StoreNames(store) : StatusOf(store', n) = StatusOf(store, n)
       /\ (Called /\ LastCall.op = "start") => StatusOf(store, LastCall.name) = STOPPED
      ]_vars

C12_Witness ==
    /\ Returned
    /\ \E n \in DefNames : StatusOf(pre, n) = ENDED /\ StatusOf(store, n) = ENDED
    /\ \E k, l \in DOMAIN log :
          /\ log[k].op = "stop" /\ log[k].status = RUNNING
          /\ log[l].op = "start" /\ log[l].status = STOPPED
    /\ \E k \in DOMAIN log : log[k].op = "end"

\* C13: in every state of a pass, intermediate ones included, the store holds at most one
\* record per name; add_schedule is called only for a name that has no record at that
\* moment and update_schedule only for a name that has one, also when the list repeats a
\* name.
C13_OneRecordPerName ==
    /\ [](\A r \in BagToSet(store) :
              /\ CopiesIn(r, store) = 1
              /\ \A q \in BagToSet(store) : name(q) = name(r) => q = r)
    /\ [][Called =>
             /\ LastCall.op = "add" => LastCall.name \notin StoreNames(store)
             /\ LastCall.op = "update" => LastCall.name \in StoreNames(store)]_vars

C13_Witness ==
    /\ pc = "loop"
    /\ i = 3
    /\ schedule_defs[1].name = schedule_defs[2].name
    /\ schedule_defs[1] # schedule_defs[2]
    /\ log = <<Entry("add", schedule_defs[1].name, STOPPED),
               Entry("update", schedule_defs[1].name, STOPPED)>>
    /\ BagCardinality(store) = Cardinality(StoreNames(store))

\* the names of the calls of the pass whose operation is op, in the order of the calls
NamesOf(op) ==
    LET sel == SelectSeq(log, LAMBDA e : e.op = op)
    IN  [k \in DOMAIN sel |-> sel[k].name]

\* the names of the definitions, in list order, whose record was RUNNING when the pass began
RunningInListOrder ==
    LET sel == SelectSeq(schedule_defs, LAMBDA d : StatusOf(pre, d.name) = RUNNING)
    IN  [k \in DOMAIN sel |-> sel[k].name]

IsPrefix(p, q) == Len(p) <= Len(q) /\ \A k \in DOMAIN p : p[k] = q[k]

\* C15: the set of names to delete is computed in the step that follows the last write and
\* precedes every backend call; every stop and start call precedes every end call; the
\* restarts are issued in the order of the definition list, each stop followed by its start.
C15_StepOrder ==
    /\ [](/\ pc = "loop" =>
                /\ schedule_names_to_delete = {}
                /\ \A k \in DOMAIN log : IsWrite(log[k])
          /\ \A k, l \in DOMAIN log :
                (log[k].op \in {"stop", "start"} /\ log[l].op = "end") => k < l
          /\ IsPrefix(NamesOf("stop"), RunningInListOrder)
          /\ IsPrefix(NamesOf("start"), NamesOf("stop"))
          /\ Len(NamesOf("stop")) - Len(NamesOf("start")) = (IF pc = "stopped" THEN 1 ELSE 0)
          /\ Returned => NamesOf("stop") = RunningInListOrder)
    /\ [][(pc = "loop" /\ pc' = "restart") =>
             /\ Len(log) = Len(schedule_defs)
             /\ log' = log
             /\ schedule_names_to_delete' = StoreNames(store) \ DefNames]_vars

C15_Witness ==
    /\ Returned
    /\ Len(NamesOf("stop")) = 2
    /\ NamesOf("stop")[1] # NamesOf("stop")[2]
    /\ NamesOf("stop") = <<schedule_defs[1].name, schedule_defs[2].name>>
    /\ NamesOf("end") # <<>>

\* the entries of the change set that are about the name n
EntriesOf(n) == SelectSeq(changeset, LAMBDA e : e[2] = n)

\* the definition the list gives for the name n (the last one, if the list repeats n)
LastDef(n) == LastDefIn(n, Len(schedule_defs))

\* C16: for a name in both inputs the change set has a change entry if and only if the old
\* and the new cron_schedule differ, and then its field_diffs is the one item
\* (cron_schedule, (old value, new value)); when the cron_schedule is equal there is no
\* entry for the name, also when environment_vars differ.
C16_ChangeEntryIffCronDiffers ==
    changeset # NoChangeSet =>
        \A n \in InBoth :
            LET old == get_schedule_by_name(store, n).schedule_definition_data
                new == LastDef(n)
            IN  EntriesOf(n) =
                    IF old.cron_schedule # new.cron_schedule
                    THEN << <<"change", n,
                              << <<"cron_schedule", <<old.cron_schedule, new.cron_schedule>> >> >> >> >>
                    ELSE <<>>

C16_Witness ==
    /\ changeset # NoChangeSet
    /\ \E n, m \in InBoth :
          /\ Len(EntriesOf(n)) = 1
          /\ EntriesOf(m) = <<>>
          /\ get_schedule_by_name(store, m).schedule_definition_data.environment_vars
                # LastDef(m).environment_vars

\* C17: every backend stop, start and end call of a pass finds a record of its name in the
\* store, so no call ends in NotFoundError; no name receives end twice, and no name
\* receives stop or start after its end.
C17_BackendCallsFindRecord ==
    /\ pc # "NotFoundError"
    /\ \A k \in DOMAIN log : IsBackend(log[k]) => log[k].status # NoStatus
    /\ \A k, l \in DOMAIN log :
          (k < l /\ log[k].op = "end" /\ log[l].name = log[k].name) => ~IsBackend(log[l])

C17_Witness ==
    /\ Returned
    /\ Len(NamesOf("end")) = 2
    /\ NamesOf("stop") # <<>>
    /\ NamesOf("start") = NamesOf("stop")
    /\ \A k \in DOMAIN log : IsBackend(log[k]) => log[k].status \in {RUNNING, STOPPED}

\* the names of the entries of kind in a change set cs
NamesIn(cs, kind) == {cs[k][2] : k \in {m \in DOMAIN cs : cs[m][1] = kind}}

\* C18: for a desired list with unique names, the names for which a pass calls add_schedule
\* are the names of the add entries of the change set computed on the store as it was when
\* the pass began, and the names for which it calls backend end are the names of the remove
\* entries of that change set.
C18_ChangeSetAgreesWithUp ==
    (Returned /\ UniqueNames(schedule_defs)) =>
        LET cs == get_schedule_change_set(all_schedules(pre), schedule_defs)
        IN  /\ {NamesOf("add")[k] : k \in DOMAIN NamesOf("add")} = NamesIn(cs, "add")
            /\ {NamesOf("end")[k] : k \in DOMAIN NamesOf("end")} = NamesIn(cs, "remove")

C18_Witness ==
    /\ Returned
    /\ UniqueNames(schedule_defs)
    /\ NamesOf("add") # <<>>
    /\ NamesOf("end") # <<>>
    /\ NamesOf("update") # <<>>
    /\ NamesIn(get_schedule_change_set(all_schedules(pre), schedule_defs), "change") # {}

\* C19: after a pass of up has returned, get_change_set returns an empty change set; and
\* get_change_set changes neither the store nor the calls made on the backend.
C19_EmptyChangeSetAfterUp ==
    /\ []((Returned /\ changeset # NoChangeSet) => changeset = <<>>)
    /\ [][(changeset = NoChangeSet /\ changeset' # NoChangeSet) =>
             (store' = store /\ log' = log)]_vars

C19_Witness ==
    /\ Returned
    /\ passes = 1
    /\ changeset = <<>>
    /\ get_schedule_change_set(all_schedules(pre), schedule_defs) # <<>>
    /\ NamesIn(get_schedule_change_set(all_schedules(pre), schedule_defs), "change") # {}
    /\ \E k \in DOMAIN log : IsBackend(log[k])

====
